---- MODULE Spec2Model ----
(***************************************************************************)
(* A model of npm_fetcher (src/mod.ts, lines 1-312: the current revision). *)
(*                                                                         *)
(* Strings are sequences of one-character strings, so that lastIndexOf,    *)
(* slice, split, replaceAll, trim and parseInt are computed the way the    *)
(* JavaScript runtime computes them.  Positions are 1-based here; JS       *)
(* index i is position i + 1 and JS -1 (not found) is position 0.          *)
(***************************************************************************)
EXTENDS Integers, Sequences, FiniteSets, TLC

VARIABLES
    argNameAndVersion,  \* splitNameAndVersion: the argument
    retSplit,           \* splitNameAndVersion: the outcome (value or thrown error)
    argVersion,         \* findHighestSemVer: the specifier argument
    argVersionList,     \* findHighestSemVer: the candidate list argument
    retHighestVersion,  \* findHighestSemVer: the outcome
    cwd,                \* Deno.cwd(): the process's working directory (resolved path)
    fs,                 \* the file system
    calls,              \* every call of fetchNpmPackage / downloadNpmPackage made so far
    active,             \* index in calls of the call that runs now, 0 when none does
    requests,           \* the fetch() calls issued so far, in order
    yielded,            \* the entries getPackageContents has yielded so far
    touched,            \* the paths downloadNpmPackage has created or written so far
    chdirs              \* how often the working directory has changed during the call

pureVars == <<argNameAndVersion, retSplit, argVersion, argVersionList, retHighestVersion>>

downloadVars == <<cwd, fs, calls, active, requests, yielded, touched, chdirs>>

vars == <<argNameAndVersion, retSplit, argVersion, argVersionList, retHighestVersion,
          cwd, fs, calls, active, requests, yielded, touched, chdirs>>

(***************************************************************************)
(* Bounds of the model.                                                    *)
(***************************************************************************)
MaxLen == 4          \* longest argument of splitNameAndVersion
MaxComponent == 1    \* greatest major / minor / patch of a generated candidate
MaxVersions == 2     \* longest candidate list handed to findHighestSemVer
MaxHostileDepth == 1 \* deepest call (1 = top level) that is served a hostile archive
MaxChdirs == 1       \* changes of the working directory while a call is in flight

(***************************************************************************)
(* JavaScript values that are not strings.  Each is a sequence holding one *)
(* multi-character element, so it differs from every string of the model.  *)
(***************************************************************************)
null == <<"null">>
undefined == <<"undefined">>
pending == <<"pending">>

(***************************************************************************)
(* String primitives.                                                      *)
(***************************************************************************)
Digits == {"0", "1", "2", "3", "4", "5", "6", "7", "8", "9"}

DigitValue(c) ==
    CASE c = "0" -> 0 [] c = "1" -> 1 [] c = "2" -> 2 [] c = "3" -> 3
      [] c = "4" -> 4 [] c = "5" -> 5 [] c = "6" -> 6 [] c = "7" -> 7
      [] c = "8" -> 8 [] c = "9" -> 9

Whitespace == {" "}

\* String.prototype.lastIndexOf: the last position of c in s, 0 when absent.
lastIndexOf(s, c) ==
    IF \E i \in 1..Len(s) : s[i] = c
    THEN CHOOSE i \in 1..Len(s) : s[i] = c /\ \A j \in (i + 1)..Len(s) : s[j] # c
    ELSE 0

\* String.prototype.indexOf, same convention.
indexOf(s, c) ==
    IF \E i \in 1..Len(s) : s[i] = c
    THEN CHOOSE i \in 1..Len(s) : s[i] = c /\ \A j \in 1..(i - 1) : s[j] # c
    ELSE 0

\* String.prototype.split with a one-character separator.
RECURSIVE split(_, _)
split(s, sep) ==
    LET i == indexOf(s, sep)
    IN  IF i = 0 THEN <<s>>
        ELSE <<SubSeq(s, 1, i - 1)>> \o split(SubSeq(s, i + 1, Len(s)), sep)

\* String.prototype.replaceAll of a one-character pattern by the string r.
RECURSIVE replaceAll(_, _, _)
replaceAll(s, c, r) ==
    IF s = <<>> THEN <<>>
    ELSE (IF Head(s) = c THEN r ELSE <<Head(s)>>) \o replaceAll(Tail(s), c, r)

RECURSIVE trimStart(_)
trimStart(s) ==
    IF s # <<>> /\ Head(s) \in Whitespace THEN trimStart(Tail(s)) ELSE s

RECURSIVE trimEnd(_)
trimEnd(s) ==
    IF s # <<>> /\ s[Len(s)] \in Whitespace THEN trimEnd(SubSeq(s, 1, Len(s) - 1)) ELSE s

\* String.prototype.trim
trim(s) == trimEnd(trimStart(s))

startsWith(s, c) == s # <<>> /\ Head(s) = c

\* p.match(/\d+/): the string holds a digit somewhere.
matchesDigits(p) == \E i \in 1..Len(p) : p[i] \in Digits

\* The i-th element of a destructured array: undefined past its end.
elementAt(arr, i) == IF i <= Len(arr) THEN arr[i] ELSE undefined

RECURSIVE digitsValue(_, _)
digitsValue(s, acc) ==
    IF s = <<>> \/ Head(s) \notin Digits THEN acc
    ELSE digitsValue(Tail(s), 10 * acc + DigitValue(Head(s)))

\* parseInt(str, 10): leading whitespace is skipped, one sign is accepted, the
\* longest run of digits is read; NaN when there is no digit to read
\* (parseInt(undefined) reads the text "undefined": NaN).
parseInt(str) ==
    LET t == trimStart(str)
        signed == t # <<>> /\ Head(t) \in {"-", "+"}
        u == IF signed THEN Tail(t) ELSE t
    IN  IF u = <<>> \/ Head(u) \notin Digits
        THEN [nan |-> TRUE, n |-> 0]
        ELSE [nan |-> FALSE,
              n |-> IF Head(t) = "-" THEN 0 - digitsValue(u, 0) ELSE digitsValue(u, 0)]

(***************************************************************************)
(* splitNameAndVersion                                                     *)
(***************************************************************************)
ErrEmpty == "The provided string is empty"
ErrNoVersion == "The provided string contains no version"
ErrNoPackageName == "The provided string contains no package name"

Throw(msg) == [threw |-> TRUE, error |-> msg, packageName |-> <<>>, version |-> <<>>]
Return(name, ver) == [threw |-> FALSE, error |-> "", packageName |-> name, version |-> ver]

SplitPending == [threw |-> FALSE, error |-> "pending", packageName |-> <<>>, version |-> <<>>]

\* splitNameAndVersion with indexOf in place of lastIndexOf: the split at the
\* first "@" (a fault the claims about the split must detect).
splitAtFirstAt(nameAndVersion) ==
    IF nameAndVersion = <<>> THEN Throw(ErrEmpty)
    ELSE LET index == indexOf(nameAndVersion, "@")
             packageName == SubSeq(nameAndVersion, 1, index - 1)
             version == SubSeq(nameAndVersion, index + 1, Len(nameAndVersion))
         IN  IF index = 0 THEN Throw(ErrNoVersion)
             ELSE IF packageName = <<>> THEN Throw(ErrNoPackageName)
             ELSE IF version = <<>> THEN Throw(ErrNoVersion)
             ELSE Return(packageName, version)

splitNameAndVersion(nameAndVersion) ==
    IF nameAndVersion = <<>> THEN Throw(ErrEmpty)
    ELSE LET index == lastIndexOf(nameAndVersion, "@")
             packageName == SubSeq(nameAndVersion, 1, index - 1)
             version == SubSeq(nameAndVersion, index + 1, Len(nameAndVersion))
         IN  IF index = 0 THEN Throw(ErrNoVersion)
             ELSE IF packageName = <<>> THEN Throw(ErrNoPackageName)
             ELSE IF version = <<>> THEN Throw(ErrNoVersion)
             ELSE Return(packageName, version)

(***************************************************************************)
(* parsePackageVersion, semVerMatches, findHighestSemVer                   *)
(***************************************************************************)
parsePackageVersion(packageVersion) ==
    LET s1 == replaceAll(packageVersion, "~", <<>>)
        s2 == replaceAll(s1, "^", <<>>)
        s3 == replaceAll(s2, "x", <<"0">>)
        s4 == replaceAll(s3, "X", <<"0">>)
        s5 == replaceAll(s4, "*", <<"0">>)
        parts == split(s5, ".")
        major == parseInt(elementAt(parts, 1))
        minor == parseInt(elementAt(parts, 2))
        patch == parseInt(elementAt(parts, 3))
    IN  << IF major.nan THEN 0 ELSE major.n,
           IF minor.nan THEN 0 ELSE minor.n,
           IF patch.nan THEN 0 ELSE patch.n >>

semVerMatches(version, packageVersion) ==
    LET v == trim(version)
        versionPartLength == Len(SelectSeq(split(v, "."), matchesDigits))
        wildcard == v \in {<<"x">>, <<"X">>, <<"*">>}
        caret == startsWith(v, "^") \/ versionPartLength = 1
        tilde == startsWith(v, "~") \/ versionPartLength = 2
        needsExactMajor == ~wildcard
        needsExactMinor == ~wildcard /\ ~caret
        needsExactPatch == ~wildcard /\ ~caret /\ ~tilde
        want == parsePackageVersion(v)
        have == parsePackageVersion(packageVersion)
    IN  /\ needsExactMajor => want[1] = have[1]
        /\ needsExactMinor => want[2] = have[2]
        /\ needsExactPatch => want[3] = have[3]

\* One iteration of the loop of findHighestSemVer over the state
\* (highestMajor, highestMinor, highestPatch, highestVersion).
highestStep(version, h, packageVersion) ==
    IF ~semVerMatches(version, packageVersion) THEN h
    ELSE LET p == parsePackageVersion(packageVersion)
             isHighest ==
                 \/ p[1] > h.major
                 \/ p[1] = h.major /\ p[2] > h.minor
                 \/ p[1] = h.major /\ p[2] = h.minor /\ p[3] > h.patch
         IN  IF isHighest
             THEN [major |-> p[1], minor |-> p[2], patch |-> p[3], version |-> packageVersion]
             ELSE h

RECURSIVE highestLoop(_, _, _)
highestLoop(version, h, versionList) ==
    IF versionList = <<>> THEN h
    ELSE highestLoop(version, highestStep(version, h, Head(versionList)), Tail(versionList))

findHighestSemVer(version, versionList) ==
    highestLoop(version,
                [major |-> 0, minor |-> 0, patch |-> 0, version |-> null],
                versionList).version

(***************************************************************************)
(* Inputs of the pure functions.                                           *)
(***************************************************************************)
SplitAlphabet == {"@", "a", "/"}

RECURSIVE StringsUpTo(_, _)
StringsUpTo(alphabet, n) ==
    IF n = 0 THEN {<<>>}
    ELSE LET shorter == StringsUpTo(alphabet, n - 1)
         IN  shorter \cup {Append(s, c) : s \in shorter, c \in alphabet}

\* Number.prototype.toString for the small numbers of the model.
RECURSIVE toDigits(_)
toDigits(n) ==
    LET d == CHOOSE c \in Digits : DigitValue(c) = n % 10
    IN  IF n < 10 THEN <<d>> ELSE Append(toDigits(n \div 10), d)

Components == 0..MaxComponent

formatVersion(t) == toDigits(t[1]) \o <<".">> \o toDigits(t[2]) \o <<".">> \o toDigits(t[3])

\* Candidate version strings as a registry advertises them, with a pre-release.
CandidateVersions ==
    {formatVersion(<<a, b, c>>) : a \in Components, b \in Components, c \in Components}
        \cup {<<"1", ".", "0", ".", "1", "-", "r", "c", ".", "2">>,
              <<"1", "0", ".", "2", ".", "0">>}

Specifiers ==
    {<<"*">>, <<"x">>, <<"X">>,
     <<"1">>, <<"0">>, <<"1", ".", "x">>, <<"0", ".", "x">>,
     <<"1", ".", "1">>, <<"0", ".", "0">>, <<"1", ".", "0", ".", "x">>,
     <<"~", "1", ".", "1">>, <<"~", "0", ".", "0">>, <<"~", "0", ".", "1">>,
     <<"~", "1", ".", "0", ".", "0">>,
     <<"^", "1", ".", "0", ".", "1">>, <<"^", "0", ".", "1", ".", "1">>,
     <<"^", "0", ".", "0", ".", "0">>, <<" ", "^", "1", ".", "0", ".", "0">>,
     <<"1", ".", "0", ".", "1">>, <<"0", ".", "0", ".", "0">>,
     <<"l", "a", "t", "e", "s", "t">>}

RECURSIVE ListsUpTo(_, _)
ListsUpTo(S, n) ==
    IF n = 0 THEN {<<>>}
    ELSE LET shorter == ListsUpTo(S, n - 1)
         IN  shorter \cup {Append(l, e) : l \in shorter, e \in S}

(***************************************************************************)
(* Specification of splitNameAndVersion over every short string.           *)
(***************************************************************************)
PureIdle ==
    /\ argNameAndVersion = <<>>
    /\ retSplit = SplitPending
    /\ argVersion = <<>>
    /\ argVersionList = <<>>
    /\ retHighestVersion = pending

DownloadIdle ==
    /\ cwd = <<"work">>
    /\ fs = <<>>
    /\ calls = <<>>
    /\ active = 0
    /\ requests = <<>>
    /\ yielded = {}
    /\ touched = {}
    /\ chdirs = 0

InitSplit ==
    /\ DownloadIdle
    /\ argNameAndVersion \in StringsUpTo(SplitAlphabet, MaxLen)
    /\ retSplit = SplitPending
    /\ argVersion = <<>>
    /\ argVersionList = <<>>
    /\ retHighestVersion = pending

CallSplitNameAndVersion ==
    /\ retSplit = SplitPending
    /\ retSplit' = splitNameAndVersion(argNameAndVersion)
    /\ UNCHANGED <<argNameAndVersion, argVersion, argVersionList, retHighestVersion>>
    /\ UNCHANGED downloadVars

NextSplit == CallSplitNameAndVersion

SpecSplit == InitSplit /\ [][NextSplit]_vars

(***************************************************************************)
(* Specification of findHighestSemVer over specifiers and candidate lists. *)
(***************************************************************************)
InitSemVer ==
    /\ DownloadIdle
    /\ argNameAndVersion = <<>>
    /\ retSplit = SplitPending
    /\ argVersion \in Specifiers
    /\ argVersionList \in ListsUpTo(CandidateVersions, MaxVersions)
    /\ retHighestVersion = pending

CallFindHighestSemVer ==
    /\ retHighestVersion = pending
    /\ retHighestVersion' = findHighestSemVer(argVersion, argVersionList)
    /\ UNCHANGED <<argNameAndVersion, retSplit, argVersion, argVersionList>>
    /\ UNCHANGED downloadVars

NextSemVer == CallFindHighestSemVer

SpecSemVer == InitSemVer /\ [][NextSemVer]_vars

(***************************************************************************)
(* Paths.  A path string is the sequence of its "/"-separated segments:    *)
(* "package/main.js" is <<"package", "main.js">>, "" is <<"">>, "/dst" is  *)
(* <<"", "dst">> and "../evil" is <<"..", "evil">>.  A resolved path is    *)
(* absolute and normalised: the sequence of its segments below the root.   *)
(***************************************************************************)
EmptyPath == <<"">>

isAbsolute(path) == Len(path) > 1 /\ path[1] = ""

\* normalizeString of std/path: "" and "." segments are dropped, ".." removes
\* the segment before it (and is dropped at the root).
RECURSIVE normalize(_, _)
normalize(segments, acc) ==
    IF segments = <<>> THEN acc
    ELSE LET seg == Head(segments)
         IN  IF seg = "" \/ seg = "." THEN normalize(Tail(segments), acc)
             ELSE IF seg = ".."
                  THEN normalize(Tail(segments),
                                 IF acc = <<>> THEN acc ELSE SubSeq(acc, 1, Len(acc) - 1))
                  ELSE normalize(Tail(segments), Append(acc, seg))

\* The right-to-left scan of path.resolve: arguments are prepended until one is
\* absolute; when none is, the working directory is prepended.
RECURSIVE joinUntilAbsolute(_, _)
joinUntilAbsolute(workingDir, paths) ==
    IF paths = <<>> THEN <<"">> \o workingDir
    ELSE LET last == paths[Len(paths)]
         IN  IF isAbsolute(last) THEN last
             ELSE joinUntilAbsolute(workingDir, SubSeq(paths, 1, Len(paths) - 1)) \o last

\* path.resolve(...paths) evaluated while Deno.cwd() is workingDir.
resolve(workingDir, paths) == normalize(joinUntilAbsolute(workingDir, paths), <<>>)

\* resolved path p is dir itself or lies below it.
IsInside(dir, p) == Len(p) >= Len(dir) /\ SubSeq(p, 1, Len(dir)) = dir

\* The proper ancestors of a resolved path and the path itself, root excluded.
withAncestors(p) == {SubSeq(p, 1, n) : n \in 1..Len(p)}

\* entry.fileName.replace(/^package\//, "")
stripPackagePrefix(fileName) ==
    IF Len(fileName) > 1 /\ fileName[1] = "package" THEN Tail(fileName) ELSE fileName

(***************************************************************************)
(* The file system: a function from resolved paths to directories and      *)
(* files (a file's content is a sequence of bytes).                        *)
(***************************************************************************)
Dir == [type |-> "directory", content |-> <<>>]
File(bytes) == [type |-> "file", content |-> bytes]

exists(files, p) == p \in DOMAIN files
isFile(files, p) == exists(files, p) /\ files[p].type = "file"
isDir(files, p) == exists(files, p) /\ files[p].type = "directory"

\* fs.ensureDir(p): fails when p or an ancestor is a file; creates what is missing.
ensureDirFails(files, p) == \E q \in withAncestors(p) : isFile(files, q)

ensureDir(files, p) ==
    [q \in DOMAIN files \cup withAncestors(p) |-> IF exists(files, q) THEN files[q] ELSE Dir]

\* fs.ensureFile(p): fails when p is a directory or an ancestor is a file;
\* creates the parent directories and an empty file when p is missing.
parent(p) == SubSeq(p, 1, Len(p) - 1)

ensureFileFails(files, p) ==
    \/ p = <<>>
    \/ isDir(files, p)
    \/ (~exists(files, p) /\ ensureDirFails(files, parent(p)))

ensureFile(files, p) ==
    IF exists(files, p) THEN files
    ELSE [q \in DOMAIN files \cup withAncestors(p) |->
            IF exists(files, q) THEN files[q] ELSE IF q = p THEN File(<<>>) ELSE Dir]

\* Deno.open(p, { write: true }) followed by streams.copy(entry, file): the
\* file is opened without truncation and written from offset 0, so bytes of
\* the old content past the new content stay.
copyInto(old, bytes) ==
    bytes \o (IF Len(old) > Len(bytes) THEN SubSeq(old, Len(bytes) + 1, Len(old)) ELSE <<>>)

writeFile(files, p, bytes) ==
    [files EXCEPT ![p] = File(copyInto(files[p].content, bytes))]

(***************************************************************************)
(* SHA-1 and its hexadecimal rendering.                                    *)
(***************************************************************************)
HexDigit(n) ==
    CASE n = 10 -> "a" [] n = 11 -> "b" [] n = 12 -> "c" [] n = 13 -> "d"
      [] n = 14 -> "e" [] n = 15 -> "f"
      [] OTHER -> CHOOSE c \in Digits : DigitValue(c) = n

\* b.toString(16).padStart(2, "0")
byteToHex(b) == IF b < 16 THEN <<"0", HexDigit(b)>> ELSE <<HexDigit(b \div 16), HexDigit(b % 16)>>

\* hashArray.map(...).join("")
RECURSIVE toHex(_)
toHex(bytes) == IF bytes = <<>> THEN <<>> ELSE byteToHex(Head(bytes)) \o toHex(Tail(bytes))

upperChar(c) ==
    CASE c = "a" -> "A" [] c = "b" -> "B" [] c = "c" -> "C" [] c = "d" -> "D"
      [] c = "e" -> "E" [] c = "f" -> "F" [] OTHER -> c

toUpperCase(str) == [i \in 1..Len(str) |-> upperChar(str[i])]

(***************************************************************************)
(* The registry and the archives it serves: the world outside the program. *)
(***************************************************************************)
V100 == <<"1", ".", "0", ".", "0">>
V110 == <<"1", ".", "1", ".", "0">>
latest == <<"l", "a", "t", "e", "s", "t">>

Packages == {"a", "b", "c", "d"}

PkgCode(p) == CASE p = "a" -> 1 [] p = "b" -> 2 [] p = "c" -> 3 [] p = "d" -> 4

\* Object.keys(versionlessPackageJson.versions) for package p.
registryVersions(p) == IF p = "a" THEN <<V100, V110>> ELSE <<V100>>

\* The version the registry serves at {packageName}/latest.
latestVersion(p) == IF p = "a" THEN V110 ELSE V100

\* A version string as one path segment.
showVersion(v) == IF v = V110 THEN "1.1.0" ELSE "1.0.0"

Dep(name, version) == [packageName |-> name, version |-> version]

\* package.json of package p: dependencies and devDependencies in key order.
Manifest(p) ==
    CASE p = "a" -> [dependencies |-> <<Dep("b", <<"^", "1", ".", "0", ".", "0">>)>>,
                     devDependencies |-> <<Dep("d", V100)>>]
      [] p = "b" -> [dependencies |-> <<Dep("c", <<"1", ".", "x">>)>>,
                     devDependencies |-> <<Dep("d", latest)>>]
      [] p = "c" -> [dependencies |-> <<>>, devDependencies |-> <<Dep("d", V100)>>]
      [] p = "d" -> [dependencies |-> <<>>, devDependencies |-> <<>>]

\* The bytes of package.json of package p, and JSON.parse on a file's bytes.
ManifestBytes(p) == <<123, PkgCode(p), 125>>
parsesAsManifest(bytes) == \E p \in Packages : bytes = ManifestBytes(p)
parseManifest(bytes) == Manifest(CHOOSE p \in Packages : bytes = ManifestBytes(p))

FileEntry(name, bytes) == [fileName |-> name, type |-> "file", content |-> bytes]
DirEntry(name) == [fileName |-> name, type |-> "directory", content |-> <<>>]

ArchiveKinds == {"plain", "traversal", "absolute", "foreign"}

\* The tar entries of a published archive of package p, in archive order.
Archive(p, kind) ==
    <<FileEntry(<<"package", "package.json">>, ManifestBytes(p))>> \o
    CASE kind = "plain" -> <<DirEntry(<<"package", "lib">>),
                             FileEntry(<<"package", "main.js">>, <<PkgCode(p), 7>>)>>
      [] kind = "traversal" -> <<FileEntry(<<"package", "..", "evil">>, <<6>>)>>
      [] kind = "absolute" -> <<FileEntry(<<"", "etc", "evil">>, <<6>>)>>
      [] kind = "foreign" -> <<FileEntry(<<"other", "x">>, <<6>>)>>

\* crypto.subtle.digest("SHA-1", bytes of the response): one digest per
\* published tarball, another for the same tarball with a byte corrupted.
sha1(name, version, corrupted) ==
    <<IF corrupted THEN 10 ELSE 171, 16 * PkgCode(name) + (IF version = V110 THEN 1 ELSE 0)>>

\* https://registry.npmjs.org/{packageName}/{version}, or without the version
\* segment when version is null; and the url in dist.tarball of a version.
RegistryUrl(name, version) == [kind |-> "registry", packageName |-> name, version |-> version]
TarballUrl(name, version) == [kind |-> "tarball", packageName |-> name, version |-> version]

\* A fetch(url) issued while call c runs.
Request(c, url) == [call |-> c, url |-> url]

(***************************************************************************)
(* fetchNpmPackage, getPackageContents, downloadNpmPackage and             *)
(* downloadPackageDependencies as steps between their suspension points.   *)
(***************************************************************************)
ErrNotExist == "because it doesn't exist"
ErrRegistry == "Failed to fetch npm package information"
ErrNotInRegistry == "version was not found in registry"
ErrTarball == "responded with an invalid status code"
ErrChecksum == "checksum failed"
ErrFs == "file system error"
ErrManifest == "package.json cannot be read or parsed"

\* version.match(/^[\d\.\s]+$/)
onlyDigitsDotsSpaces(version) ==
    version # <<>> /\ \A i \in 1..Len(version) : version[i] \in Digits \cup {"."} \cup Whitespace

\* A decision that does not count the dot-separated parts (a fault the claims
\* about the choice of the lookup must detect).
registryNeedsVersionForAnyNumeric(version) ==
    \/ version = latest
    \/ onlyDigitsDotsSpaces(version)

\* The decision of fetchNpmPackage to put the version in the registry url.
registryNeedsVersion(version) ==
    \/ version = latest
    \/ (onlyDigitsDotsSpaces(version) /\ Len(split(version, ".")) = 3)

\* The url of a lookup that never names the version (a fault the claims about
\* the lookup must detect).
registryUrlWithoutVersion(name, version) == RegistryUrl(name, null)

registryUrl(name, version) ==
    IF registryNeedsVersion(version) THEN RegistryUrl(name, version) ELSE RegistryUrl(name, null)

NewCall(api, name, version, destination, deps, devDeps, parentCall, via) ==
    [api |-> api, packageName |-> name, version |-> version,
     destinationArg |-> destination, destination |-> destination,
     downloadDependencies |-> deps, downloadDevDependencies |-> devDeps,
     parent |-> parentCall, via |-> via, cwdAtCall |-> cwd, pc |-> "registry",
     registryStatus |-> 0, resolved |-> null, shasum |-> <<>>, hashHex |-> <<>>,
     usedMatcher |-> FALSE,
     entries |-> <<>>, queue |-> <<>>, nodeModulesPath |-> <<>>,
     error |-> "", threwAt |-> ""]

Me == calls[active]

\* The calls awaiting call c, directly or not, and c itself.
RECURSIVE chain(_)
chain(c) == IF c = 0 THEN {} ELSE {c} \cup chain(calls[c].parent)

RECURSIVE depth(_)
depth(c) == IF c = 0 THEN 0 ELSE 1 + depth(calls[c].parent)

\* A throw in the running call: the error rejects it and every call awaiting it.
ThrowsFrom(now, msg) ==
    /\ calls' = [c \in 1..Len(calls) |->
                    IF c \in chain(active)
                    THEN [now[c] EXCEPT !.pc = "threw", !.error = msg, !.threwAt = now[c].pc]
                    ELSE now[c]]
    /\ active' = 0

Throws(msg) == ThrowsFrom(calls, msg)

\* The running call returns to the call awaiting it.
Returns ==
    /\ calls' = [calls EXCEPT ![active].pc = "returned"]
    /\ active' = Me.parent

TopVersions ==
    {V100, latest, <<"^", "1", ".", "0", ".", "0">>, <<"2", ".", "x">>, <<"9", ".", "9", ".", "9">>,
     <<"9", ".", "9">>, <<"1", ".", "0", ".", "0", " ">>}

Destinations == {EmptyPath, <<"out">>, <<"", "dst">>}

WorkingDirs == {<<"work">>, <<"work", "tmp">>}

EmptyFs == [p \in {<<"work">>, <<"work", "tmp">>} |-> Dir]

\* The destination /dst as an earlier download of another package left it.
PopulatedFs ==
    [p \in {<<"work">>, <<"work", "tmp">>, <<"dst">>, <<"dst", "main.js">>} |->
        IF p = <<"dst", "main.js">> THEN File(<<9, 9, 9>>) ELSE Dir]

\* The user calls fetchNpmPackage or downloadNpmPackage for package "a".  The
\* call runs to its first suspension point: the registry lookup is issued.
CallTopLevel ==
    /\ calls = <<>>
    /\ \E api \in {"fetchNpmPackage", "downloadNpmPackage"}, version \in TopVersions,
          destination \in Destinations, deps \in BOOLEAN, devDeps \in BOOLEAN :
        /\ api = "fetchNpmPackage" => (destination = EmptyPath /\ ~deps /\ ~devDeps)
        /\ calls' = <<NewCall(api, "a", version, destination, deps, devDeps, 0, "top")>>
        /\ requests' = <<Request(1, registryUrl("a", version))>>
    /\ active' = 1
    /\ UNCHANGED <<cwd, fs, yielded, touched, chdirs>>

\* Deno.chdir by other code of the process while the call is in flight.
Chdir ==
    /\ active # 0
    /\ chdirs < MaxChdirs
    /\ \E d \in WorkingDirs : d # cwd /\ cwd' = d
    /\ chdirs' = chdirs + 1
    /\ UNCHANGED <<fs, calls, active, requests, yielded, touched>>

\* A test of the status that takes every status below 500 for a success (a
\* fault the claims about registry failures must detect).
okBelowServerErrors(status) == status < 500

\* Response.ok: the status is in the range 200-299.
ok(status) == status >= 200 /\ status <= 299

\* The registry answers: the rest of fetchNpmPackage, which then returns.
RegistryResponds ==
    /\ active # 0
    /\ Me.pc = "registry"
    /\ \E status \in {200, 404, 500}, upperCase \in BOOLEAN :
        LET direct == registryNeedsVersion(Me.version)
            versions == registryVersions(Me.packageName)
            known == \E i \in 1..Len(versions) : versions[i] = Me.version
            highestVersion == findHighestSemVer(Me.version, versions)
            version == IF ~direct THEN highestVersion
                       ELSE IF Me.version = latest THEN latestVersion(Me.packageName)
                       ELSE Me.version
            hex == toHex(sha1(Me.packageName, version, FALSE))
            answered == [calls EXCEPT ![active].registryStatus = status]
        IN  /\ status = 200 => (~direct \/ Me.version = latest \/ known)
            /\ IF ~ok(status)
               THEN IF status = 404 THEN ThrowsFrom(answered, ErrNotExist)
                    ELSE ThrowsFrom(answered, ErrRegistry)
               ELSE IF ~direct /\ highestVersion = null
               THEN ThrowsFrom([answered EXCEPT ![active].usedMatcher = TRUE], ErrNotInRegistry)
               ELSE /\ calls' = [answered EXCEPT ![active].pc = "fetched",
                                                 ![active].resolved = version,
                                                 ![active].usedMatcher = ~direct,
                                                 ![active].shasum =
                                                     IF upperCase THEN toUpperCase(hex) ELSE hex]
                    /\ active' = active
    /\ UNCHANGED <<cwd, fs, requests, yielded, touched, chdirs>>

\* downloadNpmPackage resumes after fetchNpmPackage (or the user calls
\* getPackageContents() and asks for the first entry): the default destination
\* is computed and the generator runs to its first suspension point, the
\* request of the tarball.
BeginContents ==
    /\ active # 0
    /\ Me.pc = "fetched"
    /\ calls' = [calls EXCEPT
            ![active].pc = "tarball",
            ![active].destination =
                IF Me.api = "downloadNpmPackage" /\ Me.destination = EmptyPath
                THEN <<"">> \o resolve(cwd, << <<"">> \o cwd,
                                               <<".", "npm_packages", Me.packageName,
                                                 showVersion(Me.resolved)>> >>)
                ELSE Me.destination]
    /\ requests' = Append(requests, Request(active, TarballUrl(Me.packageName, Me.resolved)))
    /\ UNCHANGED <<cwd, fs, active, yielded, touched, chdirs>>

\* A checksum test that is never run, and one that ignores the case of the hex
\* digits (faults the claims about the verification must detect).
checksumNeverFails(hashHex, shasum) == FALSE
checksumFailsIgnoringCase(hashHex, shasum) == toUpperCase(hashHex) # toUpperCase(shasum)

\* The hashHex !== dist.shasum test of getPackageContents.
checksumFails(hashHex, shasum) == hashHex # shasum

\* The tarball arrives: status test, checksum test, then the archive is opened.
\* (A successful response without a body has the digest of the empty string,
\* so it fails the checksum test before the test of tarResponse.body.)
TarballResponds ==
    /\ active # 0
    /\ Me.pc = "tarball"
    /\ \E status \in {200, 404}, kind \in ArchiveKinds, corrupted \in BOOLEAN :
        /\ kind # "plain" => depth(active) <= MaxHostileDepth
        /\ status # 200 => (kind = "plain" /\ ~corrupted)
        /\ LET hashHex == toHex(sha1(Me.packageName, Me.resolved, corrupted))
               hashed == [calls EXCEPT ![active].hashHex = hashHex]
           IN  IF status # 200 THEN Throws(ErrTarball)
               ELSE IF checksumFails(hashHex, Me.shasum) THEN ThrowsFrom(hashed, ErrChecksum)
               ELSE /\ calls' = [hashed EXCEPT ![active].pc = "entries",
                                               ![active].entries = Archive(Me.packageName, kind)]
                    /\ active' = active
    /\ UNCHANGED <<cwd, fs, requests, yielded, touched, chdirs>>

\* A loop that ends while the generator still holds its last entry (a fault the
\* claims about the order of the pipeline must detect).
doneBeforeLastEntry(entries) == Len(entries) <= 1

\* The for-await loop ends when the generator has no entry left to yield.
done(entries) == entries = <<>>

\* The name getPackageContents gives an entry before yielding it.
yieldedFileName(fileName) == stripPackagePrefix(fileName)

\* The path downloadNpmPackage writes an entry to.
destinationPath(destination, fileName) == resolve(cwd, <<destination, fileName>>)

\* The record of a path created or written for an entry: the call, the name
\* the entry was yielded with, the path, and the directory the destination
\* denoted when the path was computed.
Touch(call, fileName, p) ==
    {[call |-> call, fileName |-> fileName, path |-> p,
      root |-> resolve(cwd, <<calls[call].destination>>)]}

\* One iteration of the for-await loop: the generator yields the next entry and
\* downloadNpmPackage writes it (a user iterating fetchNpmPackage's generator
\* only receives it).
NextEntry ==
    /\ active # 0
    /\ Me.pc = "entries"
    /\ ~done(Me.entries)
    /\ LET entry == Head(Me.entries)
           fileName == yieldedFileName(entry.fileName)
           p == destinationPath(Me.destination, fileName)
           consumed == [calls EXCEPT ![active].entries = Tail(Me.entries)]
       IN  /\ yielded' = yielded \cup
                  {[call |-> active, archiveName |-> entry.fileName, fileName |-> fileName,
                    type |-> entry.type, content |-> entry.content]}
           /\ IF Me.api = "fetchNpmPackage"
              THEN calls' = consumed /\ active' = active /\ UNCHANGED <<fs, touched>>
              ELSE IF entry.type = "directory"
              THEN IF ensureDirFails(fs, p)
                   THEN Throws(ErrFs) /\ UNCHANGED <<fs, touched>>
                   ELSE /\ fs' = ensureDir(fs, p)
                        /\ touched' = touched \cup Touch(active, fileName, p)
                        /\ calls' = consumed
                        /\ active' = active
              ELSE IF ensureFileFails(fs, p)
                   THEN Throws(ErrFs) /\ UNCHANGED <<fs, touched>>
                   ELSE /\ fs' = writeFile(ensureFile(fs, p), p, entry.content)
                        /\ touched' = touched \cup Touch(active, fileName, p)
                        /\ calls' = consumed
                        /\ active' = active
    /\ UNCHANGED <<cwd, requests, chdirs>>

\* The dependencies downloadNpmPackage walks, in order: dependencies first,
\* then devDependencies, each only when asked for.
dependencyQueue(packageJson, deps, devDeps) ==
    (IF deps THEN [i \in 1..Len(packageJson.dependencies) |->
                      [packageName |-> packageJson.dependencies[i].packageName,
                       version |-> packageJson.dependencies[i].version,
                       via |-> "dependencies"]]
     ELSE <<>>)
    \o
    (IF devDeps THEN [i \in 1..Len(packageJson.devDependencies) |->
                         [packageName |-> packageJson.devDependencies[i].packageName,
                          version |-> packageJson.devDependencies[i].version,
                          via |-> "devDependencies"]]
     ELSE <<>>)

\* The archive is exhausted.  A user's iteration ends; downloadNpmPackage
\* returns, or reads package.json when dependencies were asked for.
ContentsDone ==
    /\ active # 0
    /\ Me.pc = "entries"
    /\ done(Me.entries)
    /\ LET packageJsonPath == resolve(cwd, <<Me.destination, <<"package.json">>>>)
           nodeModulesPath == resolve(cwd, <<Me.destination, <<"node_modules">>>>)
       IN  IF ~(Me.downloadDependencies \/ Me.downloadDevDependencies)
           THEN Returns
           ELSE IF ~isFile(fs, packageJsonPath) \/ ~parsesAsManifest(fs[packageJsonPath].content)
           THEN Throws(ErrManifest)
           ELSE /\ calls' = [calls EXCEPT
                        ![active].pc = "dependencies",
                        ![active].nodeModulesPath = nodeModulesPath,
                        ![active].queue =
                            dependencyQueue(parseManifest(fs[packageJsonPath].content),
                                            Me.downloadDependencies,
                                            Me.downloadDevDependencies)]
                /\ active' = active
    /\ UNCHANGED <<cwd, fs, requests, yielded, touched, chdirs>>

\* A recursive call that also asks for the devDependencies of the dependency (a
\* fault the claims about the dependency walk must detect).
dependencyCallWithDevDependencies(name, version, destination, via) ==
    NewCall("downloadNpmPackage", name, version,
            <<"">> \o resolve(cwd, << <<"">> \o destination, <<name>> >>),
            TRUE, TRUE, active, via)

\* The recursive call downloadPackageDependencies makes for one dependency.
dependencyCall(name, version, destination, via) ==
    NewCall("downloadNpmPackage", name, version,
            <<"">> \o resolve(cwd, << <<"">> \o destination, <<name>> >>),
            TRUE, FALSE, active, via)

\* downloadPackageDependencies: the next dependency is downloaded, by a call
\* of downloadNpmPackage that runs to its registry lookup.
NextDependency ==
    /\ active # 0
    /\ Me.pc = "dependencies"
    /\ Me.queue # <<>>
    /\ LET dep == Head(Me.queue)
       IN  /\ calls' = Append([calls EXCEPT ![active].queue = Tail(Me.queue)],
                              dependencyCall(dep.packageName, dep.version,
                                             Me.nodeModulesPath, dep.via))
           /\ requests' = Append(requests, Request(Len(calls) + 1,
                                                   registryUrl(dep.packageName, dep.version)))
    /\ active' = Len(calls) + 1
    /\ UNCHANGED <<cwd, fs, yielded, touched, chdirs>>

\* Every dependency asked for is downloaded: downloadNpmPackage returns.
DependenciesDone ==
    /\ active # 0
    /\ Me.pc = "dependencies"
    /\ Me.queue = <<>>
    /\ Returns
    /\ UNCHANGED <<cwd, fs, requests, yielded, touched, chdirs>>

Init ==
    /\ PureIdle
    /\ cwd = <<"work">>
    /\ fs \in {EmptyFs, PopulatedFs}
    /\ calls = <<>>
    /\ active = 0
    /\ requests = <<>>
    /\ yielded = {}
    /\ touched = {}
    /\ chdirs = 0

Next ==
    \/ (CallTopLevel /\ UNCHANGED pureVars)
    \/ (Chdir /\ UNCHANGED pureVars)
    \/ (RegistryResponds /\ UNCHANGED pureVars)
    \/ (BeginContents /\ UNCHANGED pureVars)
    \/ (TarballResponds /\ UNCHANGED pureVars)
    \/ (NextEntry /\ UNCHANGED pureVars)
    \/ (ContentsDone /\ UNCHANGED pureVars)
    \/ (NextDependency /\ UNCHANGED pureVars)
    \/ (DependenciesDone /\ UNCHANGED pureVars)

Spec == Init /\ [][Next]_vars

(***************************************************************************)
(* Claims about splitNameAndVersion (specification SpecSplit).             *)
(***************************************************************************)
SplitDone == retSplit # SplitPending

AtPositions == {i \in 1..Len(argNameAndVersion) : argNameAndVersion[i] = "@"}

LastAt == CHOOSE i \in AtPositions : \A j \in AtPositions : j <= i

SplitsAtLastAt ==
    /\ ~retSplit.threw
    /\ Len(retSplit.packageName) = LastAt - 1
    /\ retSplit.packageName \o <<"@">> \o retSplit.version = argNameAndVersion

Fails(msg) == retSplit.threw /\ retSplit.error = msg

\* C1 as stated.  The cases are read in the order the claim lists them: the empty
\* string; then "contains no version" when there is no "@" or nothing follows
\* the last "@"; then "contains no package name" when nothing precedes the last
\* "@"; every other string is split at its last "@".
C1_Original_NoVersionWheneverNothingFollows ==
    SplitDone =>
        IF argNameAndVersion = <<>> THEN Fails(ErrEmpty)
        ELSE IF AtPositions = {} \/ LastAt = Len(argNameAndVersion) THEN Fails(ErrNoVersion)
        ELSE IF LastAt = 1 THEN Fails(ErrNoPackageName)
        ELSE SplitsAtLastAt

\* C1 (amended): splitNameAndVersion(s) splits s at its last "@" when text stands
\* on both sides of it (packageName + "@" + version = s and the version holds no
\* "@"); it fails with "The provided string is empty" for the empty string, with
\* "contains no package name" when nothing precedes the last "@" (also when
\* nothing follows it: the string "@"), and with "contains no version" when
\* there is no "@" or when something precedes the last "@" and nothing follows.
C1_SplitAtLastAt ==
    SplitDone =>
        IF argNameAndVersion = <<>> THEN Fails(ErrEmpty)
        ELSE IF AtPositions = {} THEN Fails(ErrNoVersion)
        ELSE IF LastAt = 1 THEN Fails(ErrNoPackageName)
        ELSE IF LastAt = Len(argNameAndVersion) THEN Fails(ErrNoVersion)
        ELSE SplitsAtLastAt

\* A scoped name with a further "@" inside it has been split and kept whole.
C1_Witness_ScopedNameSplit ==
    /\ SplitDone
    /\ ~retSplit.threw
    /\ \E i \in 1..Len(retSplit.packageName) : retSplit.packageName[i] = "@"
    /\ \E i \in 1..Len(retSplit.packageName) : retSplit.packageName[i] = "/"

(***************************************************************************)
(* Claims about findHighestSemVer (specification SpecSemVer).              *)
(***************************************************************************)
SemVerDone == retHighestVersion # pending

Matching == {i \in 1..Len(argVersionList) : semVerMatches(argVersion, argVersionList[i])}

\* (major, minor, patch) of a is at most that of b, compared numerically.
TripleLeq(a, b) ==
    \/ a[1] < b[1]
    \/ a[1] = b[1] /\ a[2] < b[2]
    \/ a[1] = b[1] /\ a[2] = b[2] /\ a[3] <= b[3]

\* The result is a candidate, among those at the positions in S, whose parsed
\* triple is greatest.
ReturnsGreatestOf(S) ==
    \E i \in S :
        /\ retHighestVersion = argVersionList[i]
        /\ \A j \in S : TripleLeq(parsePackageVersion(argVersionList[j]),
                                   parsePackageVersion(argVersionList[i]))

\* C2: findHighestSemVer returns null exactly when no candidate matches, and
\* otherwise a matching candidate with the greatest (major, minor, patch), also
\* when that triple is (0, 0, 0).
C2_NullIffNoMatch ==
    SemVerDone =>
        /\ (retHighestVersion = null) <=> (Matching = {})
        /\ Matching # {} => ReturnsGreatestOf(Matching)

\* The specifier is "^M.N.P" for the numbers M, N, P.
IsCaretSpecifier ==
    /\ startsWith(argVersion, "^")
    /\ \E a \in 0..9, b \in 0..9, c \in 0..9 : Tail(argVersion) = formatVersion(<<a, b, c>>)

WithMajor(M) == {i \in 1..Len(argVersionList) : parsePackageVersion(argVersionList[i])[1] = M}

\* C3: for "^M.N.P" the result is the candidate of major M with the greatest
\* (minor, patch); no candidate of another major is selected and none of major
\* M is left out for its minor or patch.
C3_CaretSelectsGreatestOfMajor ==
    (SemVerDone /\ IsCaretSpecifier) =>
        LET M == parsePackageVersion(argVersion)[1]
        IN  IF WithMajor(M) = {} THEN retHighestVersion = null
            ELSE ReturnsGreatestOf(WithMajor(M))

\* The specifier is "~M.N" or "M.N" for the numbers M, N.
IsTildeSpecifier ==
    LET body == IF startsWith(argVersion, "~") THEN Tail(argVersion) ELSE argVersion
    IN  \E a \in 0..9, b \in 0..9 : body = toDigits(a) \o <<".">> \o toDigits(b)

WithMajorMinor(M, N) ==
    {i \in 1..Len(argVersionList) :
        /\ parsePackageVersion(argVersionList[i])[1] = M
        /\ parsePackageVersion(argVersionList[i])[2] = N}

\* C4: for "~M.N" (or "M.N") the result is the candidate of major M and minor N
\* with the greatest patch; no candidate of another major or minor is selected.
C4_TildeSelectsGreatestPatch ==
    (SemVerDone /\ IsTildeSpecifier) =>
        LET want == parsePackageVersion(argVersion)
        IN  IF WithMajorMinor(want[1], want[2]) = {} THEN retHighestVersion = null
            ELSE ReturnsGreatestOf(WithMajorMinor(want[1], want[2]))

(***************************************************************************)
(* Claims about the download (specification Spec).                         *)
(***************************************************************************)
Calls == 1..Len(calls)

\* The digest of the tarball call c received is known and differs, as a
\* number, from the digest the registry declared.
DigestDiffers(c) ==
    /\ calls[c].hashHex # <<>>
    /\ toUpperCase(calls[c].hashHex) # toUpperCase(calls[c].shasum)

\* C5: a call whose tarball's SHA-1 digest differs from the declared shasum
\* fails with the checksum error in getPackageContents before any entry is
\* yielded, and creates or writes nothing; a top-level call leaves the file
\* system as it found it.
C5_ChecksumMismatchWritesNothing ==
    \A c \in Calls :
        DigestDiffers(c) =>
            /\ calls[c].pc = "threw"
            /\ calls[c].error = ErrChecksum
            /\ calls[c].threwAt = "tarball"
            /\ ~\E y \in yielded : y.call = c
            /\ ~\E t \in touched : t.call = c
            /\ c = 1 => fs \in {EmptyFs, PopulatedFs}

\* A download received a corrupted tarball and failed on its checksum.
C5_Witness_CorruptedTarballRejected ==
    \E c \in Calls :
        /\ DigestDiffers(c)
        /\ calls[c].api = "downloadNpmPackage"
        /\ calls[c].error = ErrChecksum

\* C6: every path downloadNpmPackage creates or writes for an entry lies inside
\* the destination directory (an entry that would escape it is rejected).
C6_WritesStayInsideDestination ==
    \A t \in touched : IsInside(t.root, t.path)

\* The fetch() calls issued while call c ran, in order.
RequestsOf(c) == SelectSeq(requests, LAMBDA r : r.call = c)

\* The version is three numbers joined by dots.
IsThreePartNumeric(version) ==
    LET parts == split(version, ".")
    IN  /\ Len(parts) = 3
        /\ \A i \in 1..3 : parts[i] # <<>> /\ \A j \in 1..Len(parts[i]) : parts[i][j] \in Digits

\* Call c has not started to iterate getPackageContents().
NotIterating(c) ==
    \/ calls[c].pc \in {"registry", "fetched"}
    \/ calls[c].pc = "threw" /\ calls[c].threwAt = "registry"

\* C7: fetchNpmPackage issues exactly one request, the registry lookup, and for
\* a three-part numeric version it goes to {packageName}/{version}; as long as
\* the iteration of getPackageContents() has not started no other request is
\* issued, and the only later request is that of the tarball.
C7_OneLookupBeforeReturn ==
    \A c \in Calls :
        LET mine == RequestsOf(c)
        IN  /\ Len(mine) >= 1
            /\ mine[1].url.kind = "registry"
            /\ mine[1].url.packageName = calls[c].packageName
            /\ IsThreePartNumeric(calls[c].version) => mine[1].url.version = calls[c].version
            /\ NotIterating(c) => Len(mine) = 1
            /\ Len(mine) <= 2
            /\ Len(mine) = 2 => mine[2].url.kind = "tarball"

\* fetchNpmPackage has returned for version 1.0.0 and nothing is iterated yet.
C7_Witness_FetchedWithoutFiles ==
    /\ Len(calls) = 1
    /\ calls[1].api = "fetchNpmPackage"
    /\ calls[1].pc = "fetched"
    /\ calls[1].version = V100
    /\ Len(requests) = 1

\* The directory the destination of call c denoted when c was called.
DestinationAtCall(c) ==
    IF calls[c].destinationArg = EmptyPath
    THEN resolve(calls[c].cwdAtCall,
                 <<<<".", "npm_packages", calls[c].packageName, showVersion(calls[c].resolved)>>>>)
    ELSE resolve(calls[c].cwdAtCall, <<calls[c].destinationArg>>)

\* C8: every entry is written below the directory the destination denoted when
\* downloadNpmPackage was called, whatever the working directory is later.
C8_WrittenUnderCallTimeDestination ==
    \A t \in touched :
        t.path = resolve(calls[t.call].cwdAtCall,
                         << <<"">> \o DestinationAtCall(t.call), t.fileName >>)

\* C9 as stated: a tarball whose digest equals the declared shasum up to letter
\* case passes the verification.
C9_Original_CaseInsensitiveComparison ==
    \A c \in Calls :
        (calls[c].hashHex # <<>> /\ ~DigestDiffers(c)) => calls[c].error # ErrChecksum

\* C9 (amended): the comparison is exact: the verification fails with the
\* checksum error exactly when the declared shasum is not, character for
\* character, the lower-case hex digest of the tarball; otherwise it passes.
C9_ExactComparison ==
    \A c \in Calls :
        calls[c].hashHex # <<>> =>
            IF calls[c].hashHex = calls[c].shasum
            THEN calls[c].pc # "tarball" /\ calls[c].threwAt # "tarball"
            ELSE /\ calls[c].pc = "threw"
                 /\ calls[c].threwAt = "tarball"
                 /\ calls[c].error = ErrChecksum

\* The registry declared the right digest in upper case and the call failed on
\* its checksum.
C9_Witness_UpperCaseRejected ==
    \E c \in Calls :
        /\ calls[c].hashHex # <<>>
        /\ ~DigestDiffers(c)
        /\ calls[c].hashHex # calls[c].shasum
        /\ calls[c].error = ErrChecksum

\* C10: every entry that is yielded (and so every entry that is written) had
\* the prefix "package/" in the archive and carries its path without it.
C10_OnlyPrefixedEntriesYielded ==
    /\ \A y \in yielded :
        /\ Len(y.archiveName) > 1
        /\ y.archiveName[1] = "package"
        /\ <<"package">> \o y.fileName = y.archiveName
    /\ \A t \in touched :
        \E y \in yielded : y.call = t.call /\ y.fileName = t.fileName /\ y.archiveName[1] = "package"

\* The calls downloadPackageDependencies made on behalf of call c.
Children(c) == {d \in Calls : calls[d].parent = c}

\* Call c has walked every dependency it was to walk.
Walked(c) == calls[c].pc = "returned" /\ (calls[c].downloadDependencies \/ calls[c].downloadDevDependencies)

\* The dependencies field of the package.json of the package call c downloaded.
DeclaredDependencies(c) == Manifest(calls[c].packageName).dependencies

DeclaredDevDependencies(c) == Manifest(calls[c].packageName).devDependencies

\* Call c started a download of the dependency dep found in the field via.
Followed(c, dep, via) ==
    \E d \in Children(c) :
        /\ calls[d].via = via
        /\ calls[d].packageName = dep.packageName
        /\ calls[d].version = dep.version

\* C11: every recursive call has downloadDependencies true and
\* downloadDevDependencies false; a download reached through a devDependencies
\* field is a child of the top-level call, made only when the top-level call
\* asked for devDependencies; and a call that was asked for dependencies (every
\* recursive call is) and has returned followed each of the dependencies of
\* its package, and, unless it is the top-level call asked for them, none of
\* its devDependencies.
C11_DevDependenciesOnlyAtTopLevel ==
    \A c \in Calls :
        /\ calls[c].parent # 0 =>
                /\ calls[c].downloadDependencies
                /\ ~calls[c].downloadDevDependencies
        /\ calls[c].via = "devDependencies" =>
                /\ calls[c].parent # 0
                /\ calls[calls[c].parent].parent = 0
                /\ calls[calls[c].parent].downloadDevDependencies
        /\ (Walked(c) /\ calls[c].downloadDependencies) =>
                \A i \in 1..Len(DeclaredDependencies(c)) :
                    Followed(c, DeclaredDependencies(c)[i], "dependencies")
        /\ (Walked(c) /\ ~calls[c].downloadDevDependencies) =>
                \A d \in Children(c) : calls[d].via = "dependencies"
        /\ (Walked(c) /\ calls[c].downloadDevDependencies) =>
                \A i \in 1..Len(DeclaredDevDependencies(c)) :
                    Followed(c, DeclaredDevDependencies(c)[i], "devDependencies")

\* The top-level call asked for both kinds, and the whole tree is downloaded:
\* the dependency of the dependency was followed, the devDependencies of the
\* dependencies (which their package.json declares) were not.
C11_Witness_DeepWalkWithoutDevDependencies ==
    /\ Len(calls) >= 1
    /\ calls[1].pc = "returned"
    /\ calls[1].downloadDependencies
    /\ calls[1].downloadDevDependencies
    /\ \E b \in Children(1), c \in Calls :
        /\ calls[b].via = "dependencies"
        /\ calls[c].parent = b
        /\ calls[c].pc = "returned"
        /\ DeclaredDevDependencies(b) # <<>>
        /\ DeclaredDevDependencies(c) # <<>>
        /\ Children(c) = {}
    /\ \E d \in Children(1) : calls[d].via = "devDependencies"

\* The registry answered the lookup of call c with a status that is not a
\* success.
RegistryRefused(c) ==
    /\ calls[c].registryStatus # 0
    /\ ~(calls[c].registryStatus \in 200..299)

\* C12: when the registry answers the lookup with a status outside 200-299,
\* fetchNpmPackage throws, for 404 the "doesn't exist" error and for any other
\* status another error; the lookup stays the only request of the call and the
\* last request of all (no retry, no tarball request), the version matcher is
\* not run, nothing is yielded, the call creates and writes nothing (a
\* top-level call leaves the file system as it found it), and the error ends
\* every call that awaits this one.
C12_RegistryFailureIsTerminal ==
    \A c \in Calls :
        RegistryRefused(c) =>
            /\ calls[c].pc = "threw"
            /\ calls[c].threwAt = "registry"
            /\ calls[c].error = (IF calls[c].registryStatus = 404 THEN ErrNotExist ELSE ErrRegistry)
            /\ ErrNotExist # ErrRegistry
            /\ ~calls[c].usedMatcher
            /\ Len(RequestsOf(c)) = 1
            /\ RequestsOf(c)[1].url.kind = "registry"
            /\ requests[Len(requests)].call = c
            /\ ~\E y \in yielded : y.call = c
            /\ ~\E t \in touched : t.call = c
            /\ c = 1 => fs \in {EmptyFs, PopulatedFs}
            /\ active = 0
            /\ \A p \in chain(c) : calls[p].pc = "threw" /\ calls[p].error = calls[c].error

\* The lookup of a dependency was answered with status 500 after the package
\* that depends on it was written: the download of the dependency wrote
\* nothing and the top-level call failed with the registry error.
C12_Witness_DependencyLookupRefused ==
    \E c \in Calls :
        /\ calls[c].parent # 0
        /\ calls[c].registryStatus = 500
        /\ calls[c].error = ErrRegistry
        /\ calls[1].error = ErrRegistry
        /\ \E t \in touched : t.call = calls[c].parent

\* The paths call c wrote the file entry y to.
WrittenFor(c, y) == {t.path : t \in {u \in touched : u.call = c /\ u.fileName = y.fileName}}

\* C13: once downloadNpmPackage has returned, the file of every file entry it
\* was given holds exactly the bytes of the entry, also when a file stood at
\* that path before the call: nothing of the earlier content is left.
C13_FilesHoldExactlyTheEntryBytes ==
    \A c \in Calls :
        (calls[c].api = "downloadNpmPackage" /\ calls[c].pc = "returned") =>
            \A y \in yielded :
                (y.call = c /\ y.type = "file") =>
                    /\ WrittenFor(c, y) # {}
                    /\ \A p \in WrittenFor(c, y) : isFile(fs, p) /\ fs[p].content = y.content

\* The specifier is "latest", or is made of digits, dots and whitespace only
\* and has exactly three dot-separated segments (two dots).
IsDirectSpecifier(version) ==
    \/ version = latest
    \/ /\ \A i \in 1..Len(version) : version[i] \in Digits \cup {"."} \cup Whitespace
       /\ Cardinality({i \in 1..Len(version) : version[i] = "."}) = 2

\* Every specifier a call is made with: those of the top-level calls and those
\* the package.json files declare.
RequestedVersions ==
    TopVersions \cup
    UNION {{Manifest(p).dependencies[i].version : i \in 1..Len(Manifest(p).dependencies)} \cup
           {Manifest(p).devDependencies[i].version : i \in 1..Len(Manifest(p).devDependencies)} :
           p \in Packages}

\* What findHighestSemVer returns for each package's versions map and each
\* specifier.
HighestInRegistry ==
    [p \in Packages |->
        [version \in RequestedVersions |-> findHighestSemVer(version, registryVersions(p))]]

\* C14: the specifier alone decides the lookup.  For "latest" and for a
\* specifier of digits, dots and whitespace with three dot-separated segments
\* the lookup goes to {packageName}/{specifier} and the version matcher is
\* never run.  For every other specifier the lookup goes to {packageName}; when
\* it succeeds, findHighestSemVer runs over the keys of the versions map, its
\* result is the resolved version, and when it returns none the call fails
\* with "version was not found in registry" and no further request is issued.
C14_LookupChosenFromSpecifier ==
    \A c \in Calls :
        LET direct == IsDirectSpecifier(calls[c].version)
            highestVersion == HighestInRegistry[calls[c].packageName][calls[c].version]
        IN  /\ RequestsOf(c)[1].url =
                    RegistryUrl(calls[c].packageName, IF direct THEN calls[c].version ELSE null)
            /\ direct => ~calls[c].usedMatcher
            /\ (~direct /\ calls[c].registryStatus \in 200..299) =>
                    /\ calls[c].usedMatcher
                    /\ IF highestVersion = null
                       THEN /\ calls[c].pc = "threw"
                            /\ calls[c].threwAt = "registry"
                            /\ calls[c].error = ErrNotInRegistry
                            /\ Len(RequestsOf(c)) = 1
                            /\ requests[Len(requests)].call = c
                       ELSE /\ calls[c].resolved = highestVersion
                            /\ calls[c].threwAt # "registry"

\* A range was looked up without a version segment and the matcher chose
\* 1.1.0 from the versions map; a two-part version also went to the matcher.
C14_Witness_RangeResolvedByMatcher ==
    \E c \in Calls :
        /\ startsWith(calls[c].version, "^")
        /\ calls[c].usedMatcher
        /\ calls[c].resolved = V110
        /\ RequestsOf(c)[1].url.version = null
        /\ Len(RequestsOf(c)) = 2

\* The calls made, directly or not, on behalf of call c, and c itself.
Subtree(c) == {e \in Calls : c \in chain(e)}

\* Call c is fetching, verifying or writing its package.
InPipeline(c) == calls[c].pc \in {"registry", "fetched", "tarball", "entries"}

\* Call c has read (or is past reading) its package.json to start its
\* dependencies.
StartedDependencies(c) == calls[c].pc = "dependencies" \/ Children(c) # {}

\* C15: within one top-level download the pipelines of the packages do not
\* interleave.  A call reads its package.json and starts dependencies only when
\* its generator has no entry left and every entry it yielded is written; a
\* dependency is started only when every earlier sibling and the whole subtree
\* of that sibling have returned; and the only call that is fetching,
\* verifying or writing is the running one, every other unfinished call
\* awaiting it in its dependency walk, so at most one package is being written.
C15_PipelinesDoNotInterleave ==
    /\ \A c \in Calls :
        /\ StartedDependencies(c) =>
                /\ ~InPipeline(c)
                /\ calls[c].entries = <<>>
                /\ \E y \in yielded : y.call = c
                /\ \A y \in yielded :
                        y.call = c => \E t \in touched : t.call = c /\ t.fileName = y.fileName
        /\ InPipeline(c) => c = active
        /\ (c # active /\ calls[c].pc = "dependencies") => c \in chain(active)
    /\ \A c, d \in Calls :
        (c < d /\ calls[c].parent = calls[d].parent) =>
            \A e \in Subtree(c) : calls[e].pc = "returned"
    /\ Cardinality({c \in Calls : calls[c].pc = "entries"}) <= 1

\* The second dependency of the top-level call is being written, after the
\* first one and the dependency of the first one have returned.
C15_Witness_SecondSiblingAfterFirstSubtree ==
    \E c, d \in Calls :
        /\ c < d
        /\ calls[c].parent = 1
        /\ calls[d].parent = 1
        /\ Subtree(c) # {c}
        /\ calls[d].pc = "entries"
        /\ \E t \in touched : t.call = d

====
